---- MODULE Spec2Model ----
(***************************************************************************)
(* Model of src/frontend/src/stores/flowsManagerStore.ts: the flow         *)
(* registry (flows, currentFlowId, currentFlow, isLoading), the debounced  *)
(* autosave timer and the per-document undo/redo history.                  *)
(*                                                                         *)
(* JavaScript runs every handler to completion on one thread, so each      *)
(* handler (and each promise/timer callback) is one atomic action.         *)
(***************************************************************************)
EXTENDS Integers, Sequences, FiniteSets, TLC

(* ----------------------------------------------------------------------- *)
(* Bounds of the model                                                     *)
(* ----------------------------------------------------------------------- *)

\* defaultOptions.maxHistorySize.  The source sets 100; the model scales it
\* down so that full stacks are reachable.  Every formula below is written
\* in terms of maxHistorySize, never of its value.
maxHistorySize == 4

\* The step by which the clock of the timers advances, in milliseconds.
TickMs == 100

\* Gateway calls that may be in flight at once.
MaxRequests == 2

\* Documents created in one run of the registry and of the import.
MaxCreates == 1

\* Documents created in one run of the naming specification, where the
\* round trips of two creates overlap.
MaxOverlap == 2

\* Calls of the Graph Session's paste that are recorded.
MaxPastes == 1

\* Calls of autoSaveCurrentFlow counted within one burst.
MaxBurst == 3

(* ----------------------------------------------------------------------- *)
(* Program constants                                                       *)
(* ----------------------------------------------------------------------- *)

\* The quiet period of autoSaveCurrentFlow's setTimeout.
AutosaveDelay == 300

\* The delay of the setTimeout in addFlow's override branch.
SettleDelay == 200

(* ----------------------------------------------------------------------- *)
(* Values                                                                  *)
(* ----------------------------------------------------------------------- *)

\* JavaScript's undefined (currentFlow before a match, a missing map key).
Undefined == [undefined |-> TRUE]

\* The live graphs the editor can hold: the empty canvas the Graph Session
\* starts with, and two graphs that differ only in the order of their nodes.
Graphs ==
    { [nodes |-> <<>>, edges |-> <<>>],
      [nodes |-> <<"n1", "n2">>, edges |-> <<"e1">>],
      [nodes |-> <<"n2", "n1">>, edges |-> <<"e1">>] }

\* Document identifiers the history actions are exercised with: the initial
\* currentFlowId "" and one identifier assigned by the backend.
HistIds == {"", "f1"}

\* The viewport addFlow gives a document created without a source.
DefaultViewport == [zoom |-> 1, x |-> 0, y |-> 0]

\* Graph payloads {nodes, edges, viewport} handed to autoSaveCurrentFlow.
Payloads ==
    { [nodes |-> <<"n1", "n2">>, edges |-> <<"e1">>, viewport |-> DefaultViewport],
      [nodes |-> <<"n2", "n1">>, edges |-> <<"e1">>,
       viewport |-> [zoom |-> 2, x |-> 5, y |-> 5]] }

\* The payload a caller of saveFlow has edited a document to.
EditedData ==
    { [nodes |-> <<"n2", "n1">>, edges |-> <<"e1">>,
       viewport |-> [zoom |-> 2, x |-> 5, y |-> 5]] }

\* The payload of the documents the backend holds at start.
StoredData ==
    [nodes |-> <<"n1", "n2">>, edges |-> <<"e1">>, viewport |-> DefaultViewport]

\* The payload of a reusable component: a single node.
ComponentData ==
    [nodes |-> <<"n1">>, edges |-> <<>>, viewport |-> DefaultViewport]

\* A display name: a base name and a version suffix, "Agent" being
\* [base |-> "Agent", version |-> 1] and "Agent (2)" version 2.
Name(base, version) == [base |-> base, version |-> version]

\* A flow document (FlowType): id, name, is_component, data.
Flow(id, name, isComponent, data) ==
    [id |-> id, name |-> name, is_component |-> isComponent, data |-> data]

\* Collections readFlowsFromDatabase can answer with.
DbCollections ==
    { <<>>,
      <<Flow("f1", Name("Agent", 1), FALSE, StoredData)>>,
      <<Flow("f1", Name("Agent", 1), FALSE, StoredData),
        Flow("f2", Name("Comp", 1), TRUE, ComponentData)>> }

\* Identifiers the gateway assigns to created documents, in order.
CreatedIds == <<"c1", "c2", "c3", "c4">>

\* Identifiers setCurrentFlowId and removeFlow are called with.
AllIds == {"", "f1", "c1"}

\* Source documents handed to addFlow: a flow and a reusable component.
Sources ==
    { Flow("", Name("Agent", 1), FALSE, StoredData),
      Flow("", Name("Comp", 1), TRUE, ComponentData) }

\* Paste positions: none given, or (5, 5).
DefaultPosition == [x |-> 10, y |-> 10]
Positions == {Undefined, [x |-> 5, y |-> 5]}

\* Parsed import resources: a single document whose is_component is true,
\* false or missing, and a bundle {flows: [...]} of two documents.
FileData(isComponent, hasFlows, docs) ==
    [name |-> Name("Agent", 1), is_component |-> isComponent,
     data |-> ComponentData, hasFlows |-> hasFlows, flows |-> docs]
FileDatas ==
    {FileData(c, FALSE, <<>>) : c \in {"true", "false", "undefined"}}
        \cup {FileData("undefined", TRUE,
                       <<Flow("", Name("Agent", 1), FALSE, StoredData),
                         Flow("", Name("Comp", 1), TRUE, ComponentData)>>)}

\* How uploadFlow gets its resource: a pre-supplied file, or the file dialog
\* with a file that is application/json or one that is not.
Resources == {"file", "dialog", "dialogOther"}

VARIABLES
    currentFlowId,  \* store field currentFlowId
    flows,          \* store field flows
    currentFlow,    \* store field currentFlow
    isLoading,      \* store field isLoading
    nodes,          \* useFlowStore.getState().nodes
    edges,          \* useFlowStore.getState().edges
    past,           \* module-level object past: identifier -> stack
    future,         \* module-level object future: identifier -> stack
    saveTimeoutId,  \* module-level saveTimeoutId (0 is null)
    timers,         \* the runtime's pending setTimeout callbacks, by timer id
    requests,       \* Persistence Gateway calls in flight, in issue order
    nextId,         \* how many identifiers the gateway has assigned
    savedComponents,\* useTypesStore data["saved_components"]
    pasteCalls,     \* calls of useFlowStore.getState().paste, in order
    lastScheduled,  \* observation: the last autoSaveCurrentFlow call (its
                    \* payload, its rank in the burst, the time since,
                    \* the currentFlowId at the call)
    lastOp,         \* observation: the handler that ran last and its branch
    preUndo         \* observation: the history view just before the last undo

vars == <<currentFlowId, flows, currentFlow, isLoading, nodes, edges,
          past, future, saveTimeoutId, timers, requests, nextId,
          savedComponents, pasteCalls, lastScheduled, lastOp, preUndo>>

timerVars == <<saveTimeoutId, timers, lastScheduled>>
gatewayVars == <<requests, nextId>>
outsideVars == <<savedComponents, pasteCalls>>

registryVars == <<flows, isLoading>>
historyVars == <<nodes, edges, past, future>>

(* ----------------------------------------------------------------------- *)
(* Helpers of the language and of lodash                                   *)
(* ----------------------------------------------------------------------- *)

Max(a, b) == IF a > b THEN a ELSE b
Min(a, b) == IF a < b THEN a ELSE b

\* Array.prototype.slice(start, end) with 0-based indices: a negative index
\* counts from the end of the array and is clamped at 0.
RelIndex(len, i) == IF i < 0 THEN Max(len + i, 0) ELSE Min(i, len)
Slice(s, start, end) ==
    LET from == RelIndex(Len(s), start)
        to == RelIndex(Len(s), end)
    IN  IF from < to THEN SubSeq(s, from + 1, to) ELSE <<>>

\* cloneDeep: a structurally equal copy.
cloneDeep(v) == v

\* JSON.stringify of a history entry {nodes, edges}: the keys in insertion
\* order, each followed by its array, as a sequence of tokens.
JSONstringify(entry) ==
    <<"{", "nodes", "[">> \o entry.nodes \o <<"]", "edges", "[">>
        \o entry.edges \o <<"]", "}">>

\* obj[key]?.length ?? 0
StackLength(obj, key) == IF key \in DOMAIN obj THEN Len(obj[key]) ELSE 0

\* obj[key] read as a stack: a missing key reads as the empty stack.
StackOf(obj, key) == IF key \in DOMAIN obj THEN obj[key] ELSE <<>>

\* obj[key] = value
Put(obj, key, value) ==
    [k \in DOMAIN obj \cup {key} |-> IF k = key THEN value ELSE obj[k]]

\* find that falls back to the first document when none has the id.
FindOrFirst(fs, id) ==
    IF \E i \in 1..Len(fs) : fs[i].id = id
    THEN fs[CHOOSE i \in 1..Len(fs) :
                /\ fs[i].id = id
                /\ \A j \in 1..(i - 1) : fs[j].id # id]
    ELSE IF fs # <<>> THEN fs[1] ELSE Undefined

\* flows.find((flow) => flow.id === id)
Find(fs, id) ==
    IF \E i \in 1..Len(fs) : fs[i].id = id
    THEN fs[CHOOSE i \in 1..Len(fs) :
                /\ fs[i].id = id
                /\ \A j \in 1..(i - 1) : fs[j].id # id]
    ELSE Undefined

\* The history as the handlers read it: live graph and both stacks of a key.
HistoryView(n, e, p, f, id) ==
    [nodes |-> n, edges |-> e, past |-> StackOf(p, id), future |-> StackOf(f, id)]

NoView == [none |-> TRUE]

\* Observation records: the handler that ran, the branch it took, its inputs.
NoArgs == [none |-> TRUE]
OpA(op, branch, args) == [op |-> op, branch |-> branch, args |-> args]
Op(op, branch) == OpA(op, branch, NoArgs)

(* ----------------------------------------------------------------------- *)
(* Initial state                                                           *)
(* ----------------------------------------------------------------------- *)

Init ==
    /\ currentFlowId = ""
    /\ flows = <<>>
    /\ currentFlow = Undefined
    /\ isLoading = TRUE
    /\ nodes = <<>>
    /\ edges = <<>>
    /\ past = <<>>
    /\ future = <<>>
    /\ saveTimeoutId = 0
    /\ timers = <<>>
    /\ requests = <<>>
    /\ nextId = 0
    /\ savedComponents = {}
    /\ pasteCalls = <<>>
    /\ lastScheduled = [payload |-> NoArgs, calls |-> 0, elapsed |-> 0,
                        current |-> ""]
    /\ lastOp = Op("init", "none")
    /\ preUndo = NoView

(* ----------------------------------------------------------------------- *)
(* Flow registry                                                           *)
(* ----------------------------------------------------------------------- *)

setCurrentFlowId(id) ==
    /\ currentFlowId' = id
    /\ currentFlow' = Find(flows, id)
    /\ lastOp' = Op("setCurrentFlowId", "none")
    /\ preUndo' = NoView
    /\ UNCHANGED <<registryVars, historyVars, timerVars, gatewayVars,
                   outsideVars>>

\* setFlows that keeps the stored currentFlow.
setFlowsStale(fs) ==
    /\ flows' = fs
    /\ currentFlow' = currentFlow

setFlows(fs) ==
    /\ flows' = fs
    /\ currentFlow' = Find(fs, currentFlowId)

\* The removal of the i-th element of a queue.
RemoveAt(seq, i) == SubSeq(seq, 1, i - 1) \o SubSeq(seq, i + 1, Len(seq))

\* processFlows of utils/reactflowUtils: the partition of a collection into
\* the catalog of reusable components (data, keyed by name) and the flows of
\* the registry.  refreshFlows (skipUpdate = false) keeps the non-component
\* documents; the other callers keep the collection they pass.
IsComponent(f) == f.is_component
IsOrdinary(f) == ~f.is_component
ProcessFlows(dbData, skipUpdate) ==
    [data |-> {dbData[i].name : i \in {j \in 1..Len(dbData) : IsComponent(dbData[j])}},
     flows |-> IF skipUpdate THEN dbData ELSE SelectSeq(dbData, IsOrdinary)]

\* A call into the Persistence Gateway that has not been answered yet.
Request(kind, arg, silent) == [kind |-> kind, arg |-> arg, silent |-> silent]
CanIssue(n) == Len(requests) + n <= MaxRequests
Pending(i, kind) == i \in 1..Len(requests) /\ requests[i].kind = kind

refreshFlows ==
    /\ CanIssue(1)
    /\ isLoading' = TRUE
    /\ requests' = Append(requests, Request("read", Undefined, FALSE))
    /\ lastOp' = Op("refreshFlows", "called")
    /\ preUndo' = NoView
    /\ UNCHANGED <<currentFlowId, currentFlow, flows, historyVars, timerVars,
                   nextId, outsideVars>>

\* readFlowsFromDatabase().then
ReadResolved(i, dbData) ==
    /\ Pending(i, "read")
    /\ requests' = RemoveAt(requests, i)
    /\ setFlows(ProcessFlows(dbData, FALSE).flows)
    /\ isLoading' = FALSE
    /\ savedComponents' = ProcessFlows(dbData, FALSE).data
    /\ lastOp' = Op("refreshFlows", "resolved")
    /\ preUndo' = NoView
    /\ UNCHANGED <<currentFlowId, historyVars, timerVars, nextId, pasteCalls>>

\* readFlowsFromDatabase().catch
ReadRejected(i) ==
    /\ Pending(i, "read")
    /\ requests' = RemoveAt(requests, i)
    /\ lastOp' = Op("refreshFlows", "rejected")
    /\ preUndo' = NoView
    /\ UNCHANGED <<currentFlowId, currentFlow, registryVars, historyVars,
                   timerVars, nextId, outsideVars>>

\* The documents a caller hands to saveFlow: a member of the collection with
\* an edited graph payload.
Savable == {[flows[i] EXCEPT !.data = p] : i \in 1..Len(flows), p \in EditedData}

saveFlow(flow, silent) ==
    /\ CanIssue(1)
    /\ requests' = Append(requests, Request("update", flow, silent))
    /\ lastOp' = OpA("saveFlow", "called", flow.id)
    /\ preUndo' = NoView
    /\ UNCHANGED <<currentFlowId, currentFlow, registryVars, historyVars,
                   timerVars, nextId, outsideVars>>

\* saveFlow that inserts the stored document when no entry has its id.
ReplacedOrInserted(fs, updatedFlow) ==
    IF \E i \in 1..Len(fs) : fs[i].id = updatedFlow.id
    THEN [i \in 1..Len(fs) |-> IF fs[i].id = updatedFlow.id THEN updatedFlow ELSE fs[i]]
    ELSE Append(fs, updatedFlow)

\* The collection saveFlow stores: the entry with the identifier of the
\* updated document replaced by it.
Replaced(fs, updatedFlow) ==
    [i \in 1..Len(fs) |-> IF fs[i].id = updatedFlow.id THEN updatedFlow ELSE fs[i]]

\* updateFlowInDatabase(flow).then; the gateway answers with the document
\* it stored.
UpdateResolved(i) ==
    /\ Pending(i, "update")
    /\ requests' = RemoveAt(requests, i)
    /\ setFlows(Replaced(flows, requests[i].arg))
    /\ lastOp' = OpA("saveFlow", "resolved", requests[i].arg.id)
    /\ preUndo' = NoView
    /\ UNCHANGED <<currentFlowId, isLoading, historyVars, timerVars, nextId,
                   outsideVars>>

\* updateFlowInDatabase(flow).catch
UpdateRejected(i) ==
    /\ Pending(i, "update")
    /\ requests' = RemoveAt(requests, i)
    /\ lastOp' = OpA("saveFlow", "rejected", requests[i].arg.id)
    /\ preUndo' = NoView
    /\ UNCHANGED <<currentFlowId, currentFlow, registryVars, historyVars,
                   timerVars, nextId, outsideVars>>

(* ----------------------------------------------------------------------- *)
(* The runtime's timers                                                    *)
(* ----------------------------------------------------------------------- *)

\* A pending setTimeout callback: what it runs, the time left, its closure.
Timer(kind, remaining, arg) == [kind |-> kind, remaining |-> remaining, arg |-> arg]

\* The identifier setTimeout returns: one no pending timer has and that the
\* handle still held in saveTimeoutId does not name.
FreshTimerId(ts, held) ==
    CHOOSE n \in 1..(Cardinality(DOMAIN ts) + 2) :
        /\ n \notin DOMAIN ts \cup {held}
        /\ \A m \in 1..(n - 1) : m \in DOMAIN ts \cup {held}

\* The runtime drops a timer when it runs its callback.
Expired(ts, id) == [t \in DOMAIN ts \ {id} |-> ts[t]]

(* ----------------------------------------------------------------------- *)
(* addFlow, removeFlow, deleteComponent                                    *)
(* ----------------------------------------------------------------------- *)

\* processDataFromFlow of utils/reactflowUtils: the graph payload of a
\* source document.
ProcessDataFromFlow(flow) == flow.data

\* createNewFlow of utils/reactflowUtils: a document without identifier,
\* built from the graph payload and the source's name and kind.
CreateNewFlow(flowData, flow) ==
    IF flow = Undefined
    THEN Flow("", Name("New Flow", 1), FALSE, flowData)
    ELSE Flow("", flow.name, flow.is_component, flowData)

\* addVersionToDuplicates of utils/reactflowUtils: the name itself when no
\* document has it, else the name with the smallest suffix >= 2 that no
\* document has.
NamesOf(fs) == {fs[i].name : i \in 1..Len(fs)}
\* addVersionToDuplicates that numbers by the count of documents instead of
\* looking for a free suffix.
AddVersionByCount(flow, fs) ==
    IF flow.name \notin NamesOf(fs)
    THEN flow.name
    ELSE Name(flow.name.base, Len(fs) + 1)

AddVersionToDuplicates(flow, fs) ==
    IF flow.name \notin NamesOf(fs)
    THEN flow.name
    ELSE Name(flow.name.base,
              CHOOSE k \in 2..(Len(fs) + 2) :
                  /\ Name(flow.name.base, k) \notin NamesOf(fs)
                  /\ \A j \in 2..(k - 1) : Name(flow.name.base, j) \in NamesOf(fs))

\* What a handler that runs inside another one reads and writes.
Effects(reqs, pastes) == [requests |-> reqs, pasteCalls |-> pastes]

\* removeFlow(id) up to its gateway call.
RemoveFlowStart(st, fs, id) ==
    IF \E i \in 1..Len(fs) : fs[i].id = id
    THEN Effects(Append(st.requests, Request("delete", id, FALSE)), st.pasteCalls)
    ELSE st

\* deleteComponent(key) up to the gateway call of its removeFlow.
DeleteComponentStart(st, fs, key) ==
    LET componentFlow ==
            IF \E i \in 1..Len(fs) : fs[i].is_component /\ fs[i].name = key
            THEN fs[CHOOSE i \in 1..Len(fs) :
                        /\ fs[i].is_component /\ fs[i].name = key
                        /\ \A j \in 1..(i - 1) :
                              ~(fs[j].is_component /\ fs[j].name = key)]
            ELSE Undefined
    IN  IF componentFlow # Undefined
        THEN RemoveFlowStart(st, fs, componentFlow.id)
        ELSE st

\* flow!.name and flow!.data throw a TypeError when no source is given.
AddFlowThrows(newProject, flow, override) ==
    flow = Undefined /\ (~newProject \/ override)

\* The branch of addFlow a call takes.
AddFlowBranch(newProject, flow, override) ==
    IF AddFlowThrows(newProject, flow, override) THEN "threw"
    ELSE IF ~newProject THEN "paste"
    ELSE IF override THEN "overriding"
    ELSE "creating"

\* The position addFlow pastes at.
PastePosition(position) ==
    IF position = Undefined THEN DefaultPosition ELSE position

\* addFlow that pastes at the default position whatever it is given.
PasteCallAtDefault(flow, position) ==
    [selection |-> [nodes |-> flow.data.nodes, edges |-> flow.data.edges],
     position |-> DefaultPosition]

\* The arguments of addFlow's call of the Graph Session's paste.
PasteCall(flow, position) ==
    [selection |-> [nodes |-> flow.data.nodes, edges |-> flow.data.edges],
     position |-> PastePosition(position)]

\* addFlow up to its first await (or to its end, for a paste).
AddFlowStart(st, fs, newProject, flow, override, position) ==
    IF AddFlowThrows(newProject, flow, override) THEN st
    ELSE IF newProject
    THEN LET flowData == IF flow # Undefined
                         THEN ProcessDataFromFlow(flow)
                         ELSE [nodes |-> <<>>, edges |-> <<>>,
                               viewport |-> DefaultViewport]
             newFlow == CreateNewFlow(flowData, flow)
         IN  IF override
             THEN LET deleted == DeleteComponentStart(st, fs, flow.name)
                  IN  Effects(Append(deleted.requests,
                                     Request("createOverride", newFlow, FALSE)),
                              deleted.pasteCalls)
             ELSE Effects(Append(st.requests,
                                 Request("create",
                                         [newFlow EXCEPT !.name =
                                             AddVersionToDuplicates(newFlow, fs)],
                                         FALSE)),
                          st.pasteCalls)
    ELSE Effects(st.requests, Append(st.pasteCalls, PasteCall(flow, position)))

\* The bounds of the model leave room for the calls a handler makes, and
\* the gateway has an identifier left for every create.
CreatesInFlight(reqs) ==
    Cardinality({i \in 1..Len(reqs) : reqs[i].kind \in {"create", "createOverride"}})
Fits(st) ==
    /\ Len(st.requests) <= MaxRequests
    /\ Len(st.pasteCalls) <= MaxPastes
    /\ nextId + CreatesInFlight(st.requests) <= Len(CreatedIds)

\* A step that leaves at most n documents created or being created.
CreatesWithin(n) == nextId + CreatesInFlight(requests') <= n

addFlow(newProject, flow, override, position) ==
    LET st == AddFlowStart(Effects(requests, pasteCalls), flows,
                           newProject, flow, override, position)
    IN  /\ Fits(st)
        /\ requests' = st.requests
        /\ pasteCalls' = st.pasteCalls
        /\ lastOp' = OpA("addFlow", AddFlowBranch(newProject, flow, override),
                         [flow |-> flow, position |-> position])
        /\ preUndo' = NoView
        /\ UNCHANGED <<currentFlowId, currentFlow, registryVars, historyVars,
                       timerVars, nextId, savedComponents>>

\* The collection and catalog addFlow and removeFlow store.
StoreProcessed(fs) ==
    /\ setFlows(ProcessFlows(fs, TRUE).flows)
    /\ isLoading' = FALSE
    /\ savedComponents' = ProcessFlows(fs, TRUE).data

\* Normal create: the continuation after await saveFlowToDatabase(newFlow).
CreateResolved(i) ==
    /\ Pending(i, "create")
    /\ requests' = RemoveAt(requests, i)
    /\ nextId' = nextId + 1
    /\ LET newFlow == [requests[i].arg EXCEPT !.id = CreatedIds[nextId + 1]]
       IN  /\ StoreProcessed(<<newFlow>> \o flows)
           /\ lastOp' = OpA("addFlow", "resolved", newFlow.id)
    /\ preUndo' = NoView
    /\ UNCHANGED <<currentFlowId, historyVars, timerVars, pasteCalls>>

\* A failed create that clears the loading flag like a successful one.
CreateRejectedClearsLoading(i) ==
    /\ Pending(i, "create")
    /\ requests' = RemoveAt(requests, i)
    /\ isLoading' = FALSE
    /\ lastOp' = Op("addFlow", "rejected")
    /\ preUndo' = NoView
    /\ UNCHANGED <<currentFlowId, currentFlow, flows, historyVars,
                   timerVars, nextId, outsideVars>>

\* Normal create: saveFlowToDatabase rejects and addFlow rethrows.
CreateRejected(i) ==
    /\ Pending(i, "create")
    /\ requests' = RemoveAt(requests, i)
    /\ lastOp' = Op("addFlow", "rejected")
    /\ preUndo' = NoView
    /\ UNCHANGED <<currentFlowId, currentFlow, registryVars, historyVars,
                   timerVars, nextId, outsideVars>>

\* Forced replace: the continuation after await saveFlowToDatabase(newFlow)
\* sets the timer that will insert the document.
CreateOverrideResolved(i) ==
    /\ Pending(i, "createOverride")
    /\ requests' = RemoveAt(requests, i)
    /\ nextId' = nextId + 1
    /\ LET newFlow == [requests[i].arg EXCEPT !.id = CreatedIds[nextId + 1]]
       IN  /\ timers' = Put(timers, FreshTimerId(timers, saveTimeoutId),
                            Timer("insert", SettleDelay, newFlow))
           /\ lastOp' = OpA("addFlow", "resolvedOverride", newFlow.id)
    /\ preUndo' = NoView
    /\ UNCHANGED <<currentFlowId, currentFlow, registryVars, historyVars,
                   saveTimeoutId, lastScheduled, outsideVars>>

\* Forced replace: saveFlowToDatabase rejects.
CreateOverrideRejected(i) ==
    /\ Pending(i, "createOverride")
    /\ requests' = RemoveAt(requests, i)
    /\ lastOp' = Op("addFlow", "rejectedOverride")
    /\ preUndo' = NoView
    /\ UNCHANGED <<currentFlowId, currentFlow, registryVars, historyVars,
                   timerVars, nextId, outsideVars>>

\* Forced replace: the callback of the setTimeout inserts the document.
InsertTimerFires(t) ==
    /\ t \in DOMAIN timers
    /\ timers[t].kind = "insert"
    /\ timers[t].remaining = 0
    /\ timers' = Expired(timers, t)
    /\ StoreProcessed(<<timers[t].arg>> \o flows)
    /\ lastOp' = OpA("addFlow", "inserted", timers[t].arg.id)
    /\ preUndo' = NoView
    /\ UNCHANGED <<currentFlowId, historyVars, saveTimeoutId, lastScheduled,
                   gatewayVars, pasteCalls>>

removeFlow(id) ==
    LET st == RemoveFlowStart(Effects(requests, pasteCalls), flows, id)
    IN  /\ Fits(st)
        /\ requests' = st.requests
        /\ lastOp' = OpA("removeFlow",
                         IF st.requests # requests THEN "deleting" ELSE "absent",
                         id)
        /\ preUndo' = NoView
        /\ UNCHANGED <<currentFlowId, currentFlow, registryVars, historyVars,
                       timerVars, nextId, outsideVars>>

deleteComponent(key) ==
    LET st == DeleteComponentStart(Effects(requests, pasteCalls), flows, key)
    IN  /\ Fits(st)
        /\ requests' = st.requests
        /\ lastOp' = OpA("deleteComponent",
                         IF st.requests # requests THEN "deleting" ELSE "absent",
                         key)
        /\ preUndo' = NoView
        /\ UNCHANGED <<currentFlowId, currentFlow, registryVars, historyVars,
                       timerVars, nextId, outsideVars>>

\* deleteFlowFromDatabase(id).then
DeleteResolved(i) ==
    /\ Pending(i, "delete")
    /\ requests' = RemoveAt(requests, i)
    /\ LET KeepOthers(f) == f.id # requests[i].arg
       IN  StoreProcessed(SelectSeq(flows, KeepOthers))
    /\ lastOp' = OpA("removeFlow", "resolved", requests[i].arg)
    /\ preUndo' = NoView
    /\ UNCHANGED <<currentFlowId, historyVars, timerVars, nextId, pasteCalls>>

\* deleteFlowFromDatabase(id) rejects: removeFlow has no handler for it.
DeleteRejected(i) ==
    /\ Pending(i, "delete")
    /\ requests' = RemoveAt(requests, i)
    /\ lastOp' = OpA("removeFlow", "unhandled", requests[i].arg)
    /\ preUndo' = NoView
    /\ UNCHANGED <<currentFlowId, currentFlow, registryVars, historyVars,
                   timerVars, nextId, outsideVars>>

(* ----------------------------------------------------------------------- *)
(* Import                                                                  *)
(* ----------------------------------------------------------------------- *)

\* uploadFlows: the chosen file is sent to the gateway when its media type
\* is application/json; otherwise nothing happens.
uploadFlows(isJson) ==
    /\ IF isJson
       THEN /\ CanIssue(1)
            /\ requests' = Append(requests, Request("bulkUpload", Undefined, FALSE))
            /\ lastOp' = Op("uploadFlows", "uploading")
       ELSE /\ UNCHANGED requests
            /\ lastOp' = Op("uploadFlows", "ignored")
    /\ preUndo' = NoView
    /\ UNCHANGED <<currentFlowId, currentFlow, registryVars, historyVars,
                   timerVars, nextId, outsideVars>>

\* uploadFlowsToDatabase(formData).then: refreshFlows is called.
BulkUploadResolved(i) ==
    /\ Pending(i, "bulkUpload")
    /\ isLoading' = TRUE
    /\ requests' = Append(RemoveAt(requests, i), Request("read", Undefined, FALSE))
    /\ lastOp' = Op("uploadFlows", "refreshing")
    /\ preUndo' = NoView
    /\ UNCHANGED <<currentFlowId, currentFlow, flows, historyVars, timerVars,
                   nextId, outsideVars>>

\* uploadFlowsToDatabase(formData) rejects: uploadFlows has no handler.
BulkUploadRejected(i) ==
    /\ Pending(i, "bulkUpload")
    /\ requests' = RemoveAt(requests, i)
    /\ lastOp' = Op("uploadFlows", "unhandled")
    /\ preUndo' = NoView
    /\ UNCHANGED <<currentFlowId, currentFlow, registryVars, historyVars,
                   timerVars, nextId, outsideVars>>

\* The component/flow test of uploadFlow on the parsed resource:
\* (!fileData.is_component && isComponent === true) ||
\* (fileData.is_component !== undefined && fileData.is_component !== isComponent)
TypeMismatch(fileData, isComponent) ==
    \/ fileData.is_component # "true" /\ isComponent
    \/ /\ fileData.is_component # "undefined"
       /\ (fileData.is_component = "true") # isComponent

\* uploadFlow whose two branches both skip the test for a paste.
UploadRejectsNewOnly(newProject, supplied, fileData, isComponent) ==
    newProject /\ TypeMismatch(fileData, isComponent)

\* Whether uploadFlow rejects: a pre-supplied file is tested only when a
\* document is to be created, a file chosen in the dialog always.
UploadRejects(newProject, supplied, fileData, isComponent) ==
    IF supplied
    THEN newProject /\ TypeMismatch(fileData, isComponent)
    ELSE TypeMismatch(fileData, isComponent)

\* The parsed resource as the document addFlow receives.
AsFlow(fileData) ==
    Flow("", fileData.name, fileData.is_component = "true", fileData.data)

\* fileData.flows.forEach((flow) => addFlow(newProject, flow, undefined, position))
RECURSIVE AddEach(_, _, _, _, _)
AddEach(st, fs, newProject, docs, position) ==
    IF docs = <<>> THEN st
    ELSE AddEach(AddFlowStart(st, fs, newProject, Head(docs), FALSE, position),
                 fs, newProject, Tail(docs), position)

\* uploadFlow from the point where the resource has been read and parsed.
\* A resource chosen in the dialog is a single document; one that is not
\* application/json is ignored.
uploadFlow(newProject, resource, fileData, isComponent, position) ==
    LET st0 == Effects(requests, pasteCalls)
        supplied == resource = "file"
        ignored == resource = "dialogOther"
        rejected == UploadRejects(newProject, supplied, fileData, isComponent)
        st == IF ignored \/ rejected THEN st0
              ELSE IF supplied
              THEN IF fileData.hasFlows
                   THEN AddEach(st0, flows, newProject, fileData.flows,
                                PastePosition(position))
                   ELSE AddFlowStart(st0, flows, newProject, AsFlow(fileData),
                                     FALSE, PastePosition(position))
              ELSE AddFlowStart(st0, flows, newProject, AsFlow(fileData),
                                FALSE, Undefined)
    IN  /\ supplied \/ ~fileData.hasFlows
        /\ Fits(st)
        /\ requests' = st.requests
        /\ pasteCalls' = st.pasteCalls
        /\ lastOp' = OpA("uploadFlow",
                         IF ignored THEN "ignored"
                         ELSE IF rejected THEN "rejected" ELSE "forwarded",
                         [newProject |-> newProject, resource |-> resource,
                          is_component |-> fileData.is_component,
                          isComponent |-> isComponent])
        /\ preUndo' = NoView
        /\ UNCHANGED <<currentFlowId, currentFlow, registryVars, historyVars,
                       timerVars, nextId, savedComponents>>

(* ----------------------------------------------------------------------- *)
(* Timers and the autosave coordinator                                     *)
(* ----------------------------------------------------------------------- *)

\* autoSaveCurrentFlow without the clearTimeout.
keepTimeout(ts, id) == ts

\* clearTimeout(id): a no-op for a timer that has fired or was cleared.
clearTimeout(ts, id) == [t \in DOMAIN ts \ {id} |-> ts[t]]

autoSaveCurrentFlow(payload) ==
    LET cleared == IF saveTimeoutId # 0
                   THEN clearTimeout(timers, saveTimeoutId)
                   ELSE timers
        id == FreshTimerId(cleared, saveTimeoutId)
    IN  /\ timers' = Put(cleared, id, Timer("autosave", AutosaveDelay, payload))
        /\ saveTimeoutId' = id
        /\ lastScheduled' =
              [payload |-> payload,
               calls |-> IF /\ saveTimeoutId \in DOMAIN timers
                            /\ lastScheduled.elapsed < AutosaveDelay
                         THEN Min(MaxBurst, lastScheduled.calls + 1)
                         ELSE 1,
               elapsed |-> 0,
               current |-> currentFlowId]
        /\ lastOp' = OpA("autoSaveCurrentFlow", "scheduled", payload)
        /\ preUndo' = NoView
        /\ UNCHANGED <<currentFlowId, currentFlow, registryVars, historyVars,
                       gatewayVars, outsideVars>>

\* Time passes: every pending timer comes TickMs closer to being due.
Tick ==
    /\ \E t \in DOMAIN timers : timers[t].remaining > 0
    /\ timers' = [t \in DOMAIN timers |->
                    [timers[t] EXCEPT !.remaining = Max(0, @ - TickMs)]]
    /\ lastScheduled' =
          IF saveTimeoutId \in DOMAIN timers
          THEN [lastScheduled EXCEPT !.elapsed = Min(AutosaveDelay, @ + TickMs)]
          ELSE lastScheduled
    /\ lastOp' = Op("tick", "none")
    /\ preUndo' = NoView
    /\ UNCHANGED <<currentFlowId, currentFlow, registryVars, historyVars,
                   saveTimeoutId, gatewayVars, outsideVars>>

\* The autosave callback saving the document that was current when the
\* autosave was scheduled.
AutosavedFlowAtSchedule(payload) ==
    IF Find(flows, lastScheduled.current) # Undefined
    THEN [Find(flows, lastScheduled.current) EXCEPT !.data = payload]
    ELSE [currentFlow EXCEPT !.data = payload]

\* The document the autosave callback hands to saveFlow.
AutosavedFlow(payload) == [currentFlow EXCEPT !.data = payload]

\* The callback of autoSaveCurrentFlow's setTimeout.
AutosaveTimerFires(t) ==
    /\ t \in DOMAIN timers
    /\ timers[t].kind = "autosave"
    /\ timers[t].remaining = 0
    /\ timers' = Expired(timers, t)
    /\ IF currentFlow # Undefined
       THEN /\ CanIssue(1)
            /\ requests' = Append(requests,
                                  Request("update", AutosavedFlow(timers[t].arg),
                                          TRUE))
            /\ lastOp' = OpA("autosaveTimer", "saved", timers[t].arg)
       ELSE /\ UNCHANGED requests
            /\ lastOp' = OpA("autosaveTimer", "skipped", timers[t].arg)
    /\ preUndo' = NoView
    /\ UNCHANGED <<currentFlowId, currentFlow, registryVars, historyVars,
                   saveTimeoutId, lastScheduled, nextId, outsideVars>>

(* ----------------------------------------------------------------------- *)
(* Graph Session                                                           *)
(* ----------------------------------------------------------------------- *)

\* An edit of the live graph made by the editor (setNodes/setEdges of the
\* flow store outside this file).
EditGraph(g) ==
    /\ [nodes |-> nodes, edges |-> edges] # g
    /\ nodes' = g.nodes
    /\ edges' = g.edges
    /\ lastOp' = Op("edit", "none")
    /\ preUndo' = NoView
    /\ UNCHANGED <<currentFlowId, currentFlow, registryVars, past, future,
                   timerVars, gatewayVars, outsideVars>>

(* ----------------------------------------------------------------------- *)
(* History manager                                                         *)
(* ----------------------------------------------------------------------- *)

\* The live graph as a history entry {nodes, edges}.
Live == [nodes |-> nodes, edges |-> edges]

\* The state the history handlers read and write.
History(n, e, p, f) == [nodes |-> n, edges |-> e, past |-> p, future |-> f]

\* The dedup test of takeSnapshot, against the wrong end of the stack.
IsDuplicateOldest(p, id, newState) ==
    /\ StackLength(p, id) > 0
    /\ JSONstringify(p[id][1]) = JSONstringify(newState)

\* The dedup test of takeSnapshot.
IsDuplicate(p, id, newState) ==
    /\ StackLength(p, id) > 0
    /\ JSONstringify(p[id][StackLength(p, id)]) = JSONstringify(newState)

\* takeSnapshot's push without the slice.
PushedPastUnbounded(p, id, newState) == Append(StackOf(p, id), newState)

\* The past stack takeSnapshot stores when it does not return early.
PushedPast(p, id, newState) ==
    LET pastLength == StackLength(p, id)
    IN  IF pastLength > 0
        THEN Append(Slice(p[id], pastLength - maxHistorySize + 1, pastLength),
                    newState)
        ELSE <<newState>>

\* takeSnapshot that leaves the future stack alone.
KeptFuture(f, id) == f

\* takeSnapshot that empties the future stacks of every document.
ClearedAllFutures(f, id) == [k \in DOMAIN f \cup {id} |-> <<>>]

\* future[currentFlowId] = []
ClearedFuture(f, id) == Put(f, id, <<>>)

takeSnapshot ==
    LET newState == [nodes |-> cloneDeep(nodes), edges |-> cloneDeep(edges)]
    IN  /\ IF IsDuplicate(past, currentFlowId, newState)
           THEN /\ UNCHANGED <<past, future>>
                /\ lastOp' = Op("takeSnapshot", "dedup")
           ELSE /\ past' = Put(past, currentFlowId,
                               PushedPast(past, currentFlowId, newState))
                /\ future' = ClearedFuture(future, currentFlowId)
                /\ lastOp' = Op("takeSnapshot", "pushed")
        /\ preUndo' = NoView
        /\ UNCHANGED <<currentFlowId, currentFlow, registryVars, nodes, edges,
                       timerVars, gatewayVars, outsideVars>>

\* pastState of undo is non-null.
HasPast(p, id) == StackLength(p, id) > 0

\* undo guarded by the existence of the stack instead of its top entry.
UndoResultUnguarded(h, id) ==
    IF HasPast(h.past, id)
    THEN LET pastLength == StackLength(h.past, id)
             pastState == h.past[id][pastLength]
         IN  History(pastState.nodes, pastState.edges,
                     Put(h.past, id, Slice(h.past[id], 0, pastLength - 1)),
                     Put(h.future, id,
                         Append(StackOf(h.future, id),
                                [nodes |-> h.nodes, edges |-> h.edges])))
    ELSE IF id \in DOMAIN h.past
         THEN History(h.nodes, h.edges, h.past,
                      Put(h.future, id,
                          Append(StackOf(h.future, id),
                                 [nodes |-> h.nodes, edges |-> h.edges])))
         ELSE h

\* The body of undo as a function of the history.
UndoResult(h, id) ==
    IF HasPast(h.past, id)
    THEN LET pastLength == StackLength(h.past, id)
             pastState == h.past[id][pastLength]
         IN  History(pastState.nodes, pastState.edges,
                     Put(h.past, id, Slice(h.past[id], 0, pastLength - 1)),
                     Put(h.future, id,
                         Append(StackOf(h.future, id),
                                [nodes |-> h.nodes, edges |-> h.edges])))
    ELSE h

undo ==
    LET r == UndoResult(History(nodes, edges, past, future), currentFlowId)
        acted == HasPast(past, currentFlowId)
    IN  /\ nodes' = r.nodes
        /\ edges' = r.edges
        /\ past' = r.past
        /\ future' = r.future
        /\ lastOp' = Op("undo", IF acted THEN "done" ELSE "noop")
        /\ preUndo' = IF acted
                      THEN HistoryView(nodes, edges, past, future, currentFlowId)
                      ELSE NoView
        /\ UNCHANGED <<currentFlowId, currentFlow, registryVars, timerVars,
                       gatewayVars, outsideVars>>

\* futureState of redo is non-null.
HasFuture(f, id) == StackLength(f, id) > 0

\* redo that pushes the entry it restores instead of the live graph.
RedoResultPushesRestored(h, id) ==
    IF HasFuture(h.future, id)
    THEN LET futureLength == StackLength(h.future, id)
             futureState == h.future[id][futureLength]
         IN  History(futureState.nodes, futureState.edges,
                     Put(h.past, id, Append(StackOf(h.past, id), futureState)),
                     Put(h.future, id,
                         Slice(h.future[id], 0, futureLength - 1)))
    ELSE h

\* The body of redo as a function of the history.
RedoResult(h, id) ==
    IF HasFuture(h.future, id)
    THEN LET futureLength == StackLength(h.future, id)
             futureState == h.future[id][futureLength]
         IN  History(futureState.nodes, futureState.edges,
                     Put(h.past, id,
                         Append(StackOf(h.past, id),
                                [nodes |-> h.nodes, edges |-> h.edges])),
                     Put(h.future, id,
                         Slice(h.future[id], 0, futureLength - 1)))
    ELSE h

redo ==
    LET r == RedoResult(History(nodes, edges, past, future), currentFlowId)
        acted == HasFuture(future, currentFlowId)
        afterUndo == lastOp.op = "undo" /\ lastOp.branch = "done"
    IN  /\ nodes' = r.nodes
        /\ edges' = r.edges
        /\ past' = r.past
        /\ future' = r.future
        /\ lastOp' = Op("redo", IF ~acted THEN "noop"
                                 ELSE IF afterUndo THEN "afterUndo" ELSE "done")
        /\ preUndo' = IF afterUndo THEN preUndo ELSE NoView
        /\ UNCHANGED <<currentFlowId, currentFlow, registryVars, timerVars,
                       gatewayVars, outsideVars>>

(* ----------------------------------------------------------------------- *)
(* Specifications                                                          *)
(* ----------------------------------------------------------------------- *)

\* The history manager with the edits and document switches around it.
HistNext ==
    \/ takeSnapshot
    \/ undo
    \/ redo
    \/ \E g \in Graphs : EditGraph(g)
    \/ \E id \in HistIds : setCurrentFlowId(id)

HistSpec == Init /\ [][HistNext]_vars

\* The registry: every handler that reads or writes the collection (the
\* paste branch of addFlow, which does neither, is exercised by ImportNext).
Next ==
    \/ \E id \in AllIds : setCurrentFlowId(id)
    \/ refreshFlows
    \/ \E i \in 1..Len(requests), db \in DbCollections : ReadResolved(i, db)
    \/ \E i \in 1..Len(requests) : ReadRejected(i)
    \/ \E flow \in Savable : saveFlow(flow, FALSE)
    \/ \E i \in 1..Len(requests) : UpdateResolved(i)
    \/ \E i \in 1..Len(requests) : UpdateRejected(i)
    \/ \E override \in BOOLEAN, flow \in Sources \cup {Undefined} :
          addFlow(TRUE, flow, override, Undefined) /\ CreatesWithin(MaxCreates)
    \/ \E i \in 1..Len(requests) : CreateResolved(i)
    \/ \E i \in 1..Len(requests) : CreateRejected(i)
    \/ \E i \in 1..Len(requests) : CreateOverrideResolved(i)
    \/ \E i \in 1..Len(requests) : CreateOverrideRejected(i)
    \/ Tick
    \/ \E t \in DOMAIN timers : InsertTimerFires(t)
    \/ \E id \in AllIds : removeFlow(id)
    \/ \E key \in {Name("Comp", 1)} : deleteComponent(key)
    \/ \E i \in 1..Len(requests) : DeleteResolved(i)
    \/ \E i \in 1..Len(requests) : DeleteRejected(i)

Spec == Init /\ [][Next]_vars

\* Import and paste: uploadFlow, uploadFlows and addFlow as a paste, with
\* the handlers they call.
ImportNext ==
    \/ \E override \in BOOLEAN, flow \in Sources \cup {Undefined},
          position \in Positions : addFlow(FALSE, flow, override, position)
    \/ \E newProject, isComponent \in BOOLEAN, resource \in Resources,
          fileData \in FileDatas, position \in Positions :
            /\ uploadFlow(newProject, resource, fileData, isComponent, position)
            /\ CreatesWithin(MaxCreates)
    \/ \E i \in 1..Len(requests) : CreateResolved(i)
    \/ \E i \in 1..Len(requests) : CreateRejected(i)
    \/ \E isJson \in BOOLEAN : uploadFlows(isJson)
    \/ \E i \in 1..Len(requests) : BulkUploadResolved(i)
    \/ \E i \in 1..Len(requests) : BulkUploadRejected(i)
    \/ \E i \in 1..Len(requests), db \in DbCollections : ReadResolved(i, db)
    \/ \E i \in 1..Len(requests) : ReadRejected(i)

ImportSpec == Init /\ [][ImportNext]_vars

AutoNext ==
    \/ \E p \in Payloads : autoSaveCurrentFlow(p)
    \/ Tick
    \/ \E t \in DOMAIN timers : AutosaveTimerFires(t)
    \/ \E id \in {"", "f1"} : setCurrentFlowId(id)
    \/ refreshFlows
    \/ \E i \in 1..Len(requests), db \in DbCollections : ReadResolved(i, db)
    \/ \E i \in 1..Len(requests) : ReadRejected(i)
    \/ \E i \in 1..Len(requests) : UpdateResolved(i)
    \/ \E i \in 1..Len(requests) : UpdateRejected(i)

AutoSpec == Init /\ [][AutoNext]_vars

\* Collections the backend can hold when names have collided before: the
\* suffixes in use are contiguous in one and leave a gap in the other.
NamedCollections ==
    DbCollections \cup
    { <<Flow("f1", Name("Agent", 1), FALSE, StoredData),
        Flow("f3", Name("Agent", 2), FALSE, StoredData)>>,
      <<Flow("f1", Name("Agent", 1), FALSE, StoredData),
        Flow("f3", Name("Agent", 3), FALSE, StoredData)>> }

\* Bundles handed to uploadFlow: two documents of different names, and two
\* documents of the same name.
Bundles ==
    { FileData("undefined", TRUE,
               <<Flow("", Name("Agent", 1), FALSE, StoredData),
                 Flow("", Name("Comp", 1), TRUE, ComponentData)>>),
      FileData("undefined", TRUE,
               <<Flow("", Name("Agent", 1), FALSE, StoredData),
                 Flow("", Name("Agent", 1), FALSE, ComponentData)>>) }

\* Naming: normal creates, alone and from a bundle, whose round trips may
\* overlap, over a registry loaded from the backend.
NamingNext ==
    \/ refreshFlows
    \/ \E i \in 1..Len(requests), db \in NamedCollections : ReadResolved(i, db)
    \/ \E flow \in Sources \cup {Undefined} :
          addFlow(TRUE, flow, FALSE, Undefined) /\ CreatesWithin(MaxOverlap)
    \/ \E fileData \in Bundles :
          /\ uploadFlow(TRUE, "file", fileData, FALSE, Undefined)
          /\ CreatesWithin(MaxOverlap)
    \/ \E i \in 1..Len(requests) : CreateResolved(i)
    \/ \E i \in 1..Len(requests) : CreateRejected(i)

NamingSpec == Init /\ [][NamingNext]_vars

\* A backend that holds two flows, and the identifiers the editor switches
\* between.
TwoFlows ==
    <<Flow("f1", Name("Agent", 1), FALSE, StoredData),
      Flow("f3", Name("Agent", 2), FALSE, ComponentData)>>
SwitchIds == {"", "f1", "f3"}

\* Autosave while the editor switches between two documents.
SwitchNext ==
    \/ \E p \in Payloads : autoSaveCurrentFlow(p)
    \/ Tick
    \/ \E t \in DOMAIN timers : AutosaveTimerFires(t)
    \/ \E id \in SwitchIds : setCurrentFlowId(id)
    \/ refreshFlows
    \/ \E i \in 1..Len(requests) : ReadResolved(i, TwoFlows)
    \/ \E i \in 1..Len(requests) : UpdateResolved(i)
    \/ \E i \in 1..Len(requests) : UpdateRejected(i)

SwitchSpec == Init /\ [][SwitchNext]_vars

\* Forced replace: creates and forced replaces of a flow and of a reusable
\* component, with the deletes, timers and completions they start.
ReplaceNext ==
    \/ \E override \in BOOLEAN, flow \in Sources :
          addFlow(TRUE, flow, override, Undefined) /\ CreatesWithin(MaxOverlap)
    \/ \E i \in 1..Len(requests) : CreateResolved(i)
    \/ \E i \in 1..Len(requests) : CreateRejected(i)
    \/ \E i \in 1..Len(requests) : CreateOverrideResolved(i)
    \/ \E i \in 1..Len(requests) : CreateOverrideRejected(i)
    \/ Tick
    \/ \E t \in DOMAIN timers : InsertTimerFires(t)
    \/ \E i \in 1..Len(requests) : DeleteResolved(i)
    \/ \E i \in 1..Len(requests) : DeleteRejected(i)

ReplaceSpec == Init /\ [][ReplaceNext]_vars

\* The history manager over a registry that is loaded meanwhile.
FrameNext ==
    \/ HistNext
    \/ refreshFlows
    \/ \E i \in 1..Len(requests) : ReadResolved(i, TwoFlows)

FrameSpec == Init /\ [][FrameNext]_vars

(* ----------------------------------------------------------------------- *)
(* History claims (checked under HistSpec)                                 *)
(* ----------------------------------------------------------------------- *)

\* The handler that produced the current state.
Ran(op) == lastOp.op = op
\* The handler that takes the step.
Runs(op) == lastOp'.op = op

\* C1: for every document, the past stack never holds more than
\* maxHistorySize entries, whatever sequence of takeSnapshot, undo, redo,
\* edits and document switches led here (redo's unbounded push included).
C1_PastBounded ==
    \A id \in DOMAIN past : Len(past[id]) <= maxHistorySize

\* C1 witness: redo has just pushed onto a past stack that already held an
\* entry, while the other document has a history of its own.
C1_Witness ==
    /\ Ran("redo")
    /\ lastOp.branch # "noop"
    /\ StackLength(past, currentFlowId) >= 2
    /\ \E id \in DOMAIN past : id # currentFlowId /\ Len(past[id]) >= 1

\* C2 (as claimed): a non-duplicate takeSnapshot on a past stack shorter than
\* maxHistorySize appends the new entry and drops nothing; on a stack of
\* exactly maxHistorySize entries it drops exactly the oldest entry.
C2_EvictsOnlyWhenFull ==
    [][(Runs("takeSnapshot") /\ ~IsDuplicate(past, currentFlowId, Live))
        => past'[currentFlowId] =
              IF StackLength(past, currentFlowId) < maxHistorySize
              THEN Append(StackOf(past, currentFlowId), Live)
              ELSE Append(Tail(past[currentFlowId]), Live)]_vars

\* C3 (as claimed): after any call to takeSnapshot the future stack of the
\* current document is empty.
C3_FutureEmptyAfterAnySnapshot ==
    Ran("takeSnapshot") => StackOf(future, currentFlowId) = <<>>

\* C3 (amended): a takeSnapshot call that is not deduplicated leaves the
\* future stack of the current document empty; a deduplicated call leaves
\* both maps as they were.
C3_FutureEmptyAfterPush ==
    [][Runs("takeSnapshot")
        => IF IsDuplicate(past, currentFlowId, Live)
           THEN UNCHANGED <<past, future>>
           ELSE /\ currentFlowId \in DOMAIN future'
                /\ future'[currentFlowId] = <<>>]_vars

\* C3 witness: a snapshot was pushed after an undo and an edit, and the
\* redo path it invalidated is gone.
C3_Witness ==
    /\ Ran("takeSnapshot")
    /\ lastOp.branch = "pushed"
    /\ StackLength(past, currentFlowId) >= 2
    /\ currentFlowId \in DOMAIN future
    /\ future[currentFlowId] = <<>>

\* C4: undo on a non-empty past stack immediately followed by redo restores
\* the live nodes and edges and both stacks of the current document to what
\* they were before the undo.
C4_UndoRedoRestores ==
    (Ran("redo") /\ lastOp.branch = "afterUndo")
        => HistoryView(nodes, edges, past, future, currentFlowId) = preUndo

\* C4 witness: redo ran right after an undo and restored a document with two
\* history entries and a non-empty live graph.
C4_Witness ==
    /\ Ran("redo")
    /\ lastOp.branch = "afterUndo"
    /\ StackLength(past, currentFlowId) >= 1
    /\ StackLength(past, currentFlowId)
         + StackLength(future, currentFlowId) >= 2
    /\ nodes # <<>>

\* C5: takeSnapshot on a live graph structurally equal (order included) to
\* the top past entry changes neither map; hence a takeSnapshot directly
\* after a takeSnapshot changes nothing.
C5_SnapshotIdempotent ==
    [][(Runs("takeSnapshot")
        /\ \/ /\ StackLength(past, currentFlowId) > 0
              /\ past[currentFlowId][StackLength(past, currentFlowId)] = Live
           \/ Ran("takeSnapshot"))
        => UNCHANGED <<past, future>>]_vars

\* C5 witness: a deduplicated takeSnapshot on a document with a past entry
\* and a pending redo entry.
C5_Witness ==
    /\ Ran("takeSnapshot")
    /\ lastOp.branch = "dedup"
    /\ StackLength(past, currentFlowId) >= 1
    /\ StackLength(future, currentFlowId) >= 1

\* C6: undo with an empty or absent past stack, and redo with an empty or
\* absent future stack, change neither the live graph nor any stack.
C6_EmptyUndoRedoNoop ==
    [][(\/ Runs("undo") /\ StackOf(past, currentFlowId) = <<>>
        \/ Runs("redo") /\ StackOf(future, currentFlowId) = <<>>)
        => UNCHANGED <<nodes, edges, past, future>>]_vars

\* C6 witness: undo was a no-op on a past stack that exists but is empty,
\* while a redo entry is pending.
C6_Witness ==
    /\ Ran("undo")
    /\ lastOp.branch = "noop"
    /\ currentFlowId \in DOMAIN past
    /\ past[currentFlowId] = <<>>
    /\ StackLength(future, currentFlowId) >= 1

(* ----------------------------------------------------------------------- *)
(* Autosave claims (checked under AutoSpec)                                *)
(* ----------------------------------------------------------------------- *)

\* The autosave callbacks that are scheduled and have not fired.
PendingAutosaves == {t \in DOMAIN timers : timers[t].kind = "autosave"}

\* C7: autosave is a trailing-edge debounce on one timer.  At most one
\* autosave is pending at any time; a call of autoSaveCurrentFlow issues no
\* save itself and leaves its own timer as the only one; the timer fires no
\* sooner than AutosaveDelay after the last call of the burst, leaves no
\* timer behind, and with a current document issues exactly one update,
\* carrying the payload of the last call.
C7_TrailingDebounce ==
    /\ [](Cardinality(PendingAutosaves) <= 1)
    /\ [][Runs("autoSaveCurrentFlow")
            => /\ requests' = requests
               /\ PendingAutosaves' = {saveTimeoutId'}
               /\ timers'[saveTimeoutId'].arg = lastScheduled'.payload]_vars
    /\ [][Runs("autosaveTimer")
            => /\ lastScheduled.elapsed >= AutosaveDelay
               /\ PendingAutosaves' = {}
               /\ requests' =
                    IF currentFlow # Undefined
                    THEN Append(requests,
                                Request("update",
                                        [currentFlow EXCEPT
                                            !.data = lastScheduled.payload],
                                        TRUE))
                    ELSE requests]_vars

\* C7 witness: the timer of a burst of three calls has fired and the one
\* update in flight carries the payload of the third call.
C7_Witness ==
    /\ Ran("autosaveTimer")
    /\ lastOp.branch = "saved"
    /\ lastScheduled.calls >= 3
    /\ Len(requests) = 1
    /\ requests[1].kind = "update"
    /\ requests[1].arg.data = lastScheduled.payload
    /\ requests[1].arg.data # StoredData

(* ----------------------------------------------------------------------- *)
(* Registry claims (checked under Spec and ImportSpec)                     *)
(* ----------------------------------------------------------------------- *)

\* C8: addFlow with isNewDocument = false calls no gateway operation and
\* changes neither the collection nor the current identifier, the current
\* document or the loading flag; it calls the Graph Session's paste once,
\* with the source's nodes and edges, at the given position or at (10, 10)
\* when none is given.
C8_PasteOnly ==
    [][(Runs("addFlow") /\ lastOp'.branch = "paste")
        => /\ UNCHANGED <<flows, currentFlowId, currentFlow, isLoading,
                          requests, nextId, timers, savedComponents>>
           /\ pasteCalls' =
                Append(pasteCalls,
                       [selection |-> [nodes |-> lastOp'.args.flow.data.nodes,
                                       edges |-> lastOp'.args.flow.data.edges],
                        position |-> IF lastOp'.args.position = Undefined
                                     THEN [x |-> 10, y |-> 10]
                                     ELSE lastOp'.args.position])]_vars

\* C8 witness: a paste at (5, 5) was made while a gateway call was in flight
\* and the registry held documents.
C8_Witness ==
    /\ Ran("addFlow")
    /\ lastOp.branch = "paste"
    /\ lastOp.args.position = [x |-> 5, y |-> 5]
    /\ Len(pasteCalls) = 1
    /\ pasteCalls[1].position = [x |-> 5, y |-> 5]
    /\ Len(flows) >= 1
    /\ Len(requests) >= 1

\* The resource is a component and the caller asked for a flow.
ComponentAsFlow(args) ==
    args.is_component = "true" /\ ~args.isComponent

\* uploadFlow left everything as it was.
UploadMutatesNothing ==
    UNCHANGED <<flows, currentFlowId, currentFlow, isLoading, requests, nextId,
                timers, savedComponents, pasteCalls, nodes, edges>>

C10_CurrentFlowDerived ==
    /\ (\A i \in 1..Len(flows) : flows[i].id # currentFlowId)
          => currentFlow = Undefined
    /\ \A i \in 1..Len(flows) :
          (flows[i].id = currentFlowId
           /\ \A j \in 1..(i - 1) : flows[j].id # currentFlowId)
              => currentFlow = flows[i]

\* C10 witness: a save has replaced the current document by the edited one
\* and currentFlow is that document.
C10_Witness ==
    /\ Ran("saveFlow")
    /\ lastOp.branch = "resolved"
    /\ currentFlow # Undefined
    /\ currentFlow.id = currentFlowId
    /\ currentFlow.data \in EditedData
    /\ Len(flows) >= 2

(* ----------------------------------------------------------------------- *)
(* Registry claims (checked under Spec unless said otherwise)              *)
(* ----------------------------------------------------------------------- *)

\* The identifiers of a collection, in order.
IdsOf(fs) == [i \in 1..Len(fs) |-> fs[i].id]

\* C11: no step of saveFlow (the call, the gateway's success, its failure)
\* changes the identifiers of the collection or their order.  On success
\* every entry with the identifier of the stored document becomes that
\* document and every other entry is kept; nothing is inserted when no entry
\* has the identifier.  On failure the collection is unchanged and the
\* promise is rejected.
C11_SaveKeepsIdentifiers ==
    [][Runs("saveFlow") =>
        /\ IdsOf(flows') = IdsOf(flows)
        /\ lastOp'.branch = "resolved" =>
              \E i \in 1..Len(requests) :
                  /\ Pending(i, "update")
                  /\ requests[i].arg.id = lastOp'.args
                  /\ requests' = RemoveAt(requests, i)
                  /\ \A k \in 1..Len(flows) :
                        flows'[k] = IF flows[k].id = lastOp'.args
                                    THEN requests[i].arg
                                    ELSE flows[k]
        /\ lastOp'.branch # "resolved" => flows' = flows]_vars

\* C11 witness: a save succeeded for a document that was removed while the
\* save was in flight, and the collection still holds another document.
C11_Witness ==
    /\ Ran("saveFlow")
    /\ lastOp.branch = "resolved"
    /\ \A k \in 1..Len(flows) : flows[k].id # lastOp.args
    /\ Len(flows) >= 1

(* ----------------------------------------------------------------------- *)
(* Naming claims (checked under NamingSpec)                                *)
(* ----------------------------------------------------------------------- *)

\* The gateway calls a step has issued.
Issued == {j \in (Len(requests) + 1)..Len(requests') : TRUE}

\* name is what the duplicate-naming rule gives a source of that base name
\* over the names in use: the unsuffixed name when it is free, else the
\* name with the smallest suffix >= 2 that is free.
SmallestFree(name, used) ==
    /\ name \notin used
    /\ name.version >= 1
    /\ \A k \in 1..(name.version - 1) : Name(name.base, k) \in used

\* C12: the document a normal create sends to the gateway has the name of
\* its source when no document of the collection has it, and otherwise that
\* name with the smallest suffix k >= 2 such that no document is named
\* "name (k)"; with "Agent" and "Agent (2)" in the collection a create of
\* "Agent" sends "Agent (3)".
C12_SmallestFreeSuffix ==
    [][(Runs("addFlow") /\ lastOp'.branch = "creating") =>
        /\ Issued # {}
        /\ \A j \in Issued :
              /\ requests'[j].kind = "create"
              /\ requests'[j].arg.name.base =
                    (IF lastOp'.args.flow = Undefined
                     THEN "New Flow" ELSE lastOp'.args.flow.name.base)
              /\ SmallestFree(requests'[j].arg.name, NamesOf(flows))
              /\ ({Name("Agent", 1), Name("Agent", 2)} \subseteq NamesOf(flows)
                  /\ Name("Agent", 3) \notin NamesOf(flows)
                  /\ lastOp'.args.flow # Undefined
                  /\ lastOp'.args.flow.name = Name("Agent", 1))
                    => requests'[j].arg.name = Name("Agent", 3)]_vars

\* C12 witness: with "Agent" and "Agent (2)" in the collection a create of
\* "Agent" has sent "Agent (3)" to the gateway.
C12_Witness ==
    /\ Ran("addFlow")
    /\ lastOp.branch = "creating"
    /\ {Name("Agent", 1), Name("Agent", 2)} \subseteq NamesOf(flows)
    /\ requests # <<>>
    /\ requests[Len(requests)].kind = "create"
    /\ requests[Len(requests)].arg.name = Name("Agent", 3)

(* ----------------------------------------------------------------------- *)
(* Registry claims (checked under Spec), continued                         *)
(* ----------------------------------------------------------------------- *)

\* C13 (as claimed): once the registry is loaded a document is current.  In
\* particular the state a successful refresh leaves, when the backend holds
\* documents, has a defined currentFlow.
C13_CurrentOnceLoaded ==
    (Ran("refreshFlows") /\ lastOp.branch = "resolved" /\ flows # <<>>)
        => currentFlow # Undefined

\* C13 (amended): at most one document is current.  A defined currentFlow
\* is a document of the collection that has the identifier currentFlowId;
\* no step but setCurrentFlowId changes currentFlowId, so a load selects no
\* document, and the completed removal of the document that has the
\* identifier currentFlowId leaves currentFlow undefined.
C13_AtMostOneCurrent ==
    [][/\ currentFlow' # Undefined =>
            /\ currentFlow'.id = currentFlowId'
            /\ \E i \in 1..Len(flows') : flows'[i] = currentFlow'
       /\ ~Runs("setCurrentFlowId") => currentFlowId' = currentFlowId
       /\ (Runs("removeFlow") /\ lastOp'.branch = "resolved"
           /\ lastOp'.args = currentFlowId)
             => currentFlow' = Undefined]_vars

\* C13 witness: the registry was loaded, a document was made current and
\* its removal has completed: none is current although others remain.
C13_Witness ==
    /\ Ran("removeFlow")
    /\ lastOp.branch = "resolved"
    /\ lastOp.args = currentFlowId
    /\ currentFlowId = "f1"
    /\ currentFlow = Undefined
    /\ flows # <<>>

(* ----------------------------------------------------------------------- *)
(* Autosave target (checked under SwitchSpec)                              *)
(* ----------------------------------------------------------------------- *)

\* C14: the timer's callback saves the document that is current when it
\* runs.  With a current document it issues one silent update, of that
\* document with the payload given when the autosave was scheduled, and
\* none for the document that was current at scheduling if that is another
\* one; without a current document it issues nothing.
C14_TargetResolvedAtFire ==
    [][Runs("autosaveTimer") =>
        IF currentFlow = Undefined
        THEN requests' = requests /\ lastOp'.branch = "skipped"
        ELSE /\ lastOp'.branch = "saved"
             /\ Len(requests') = Len(requests) + 1
             /\ SubSeq(requests', 1, Len(requests)) = requests
             /\ LET r == requests'[Len(requests')]
                IN  /\ r.kind = "update"
                    /\ r.silent
                    /\ r.arg.id = currentFlowId
                    /\ r.arg.name = currentFlow.name
                    /\ r.arg.data = lastScheduled.payload
                    /\ lastScheduled.current # currentFlowId
                          => r.arg.id # lastScheduled.current]_vars

\* C14 witness: the autosave was scheduled while f1 was current, the editor
\* switched to f3, and the one update in flight is for f3 with the payload
\* of the call.
C14_Witness ==
    /\ Ran("autosaveTimer")
    /\ lastOp.branch = "saved"
    /\ lastScheduled.current = "f1"
    /\ Find(flows, "f1") # Undefined
    /\ currentFlowId = "f3"
    /\ Len(requests) = 1
    /\ requests[1].arg.id = "f3"
    /\ requests[1].arg.name = Name("Agent", 2)
    /\ requests[1].arg.data = lastScheduled.payload

(* ----------------------------------------------------------------------- *)
(* Registry claims (checked under Spec): loading flag                      *)
(* ----------------------------------------------------------------------- *)

\* A refresh has been started and its readFlowsFromDatabase is unanswered.
RefreshInFlight == \E i \in 1..Len(requests) : Pending(i, "read")

\* C15 (as claimed): isLoading is true in every state in which a refresh is
\* in flight, whatever completions of addFlow, removeFlow and saveFlow
\* arrive meanwhile; in particular in the state such a completion leaves.
C15_LoadingWhileRefreshing ==
    (RefreshInFlight /\ lastOp.op \in {"addFlow", "removeFlow", "saveFlow"})
        => isLoading

(* ----------------------------------------------------------------------- *)
(* Naming claims (checked under NamingSpec): uniqueness                    *)
(* ----------------------------------------------------------------------- *)

\* The identifiers the gateway has assigned to created documents.
Created == {CreatedIds[k] : k \in 1..nextId}

\* C16 (as claimed): once every normal create has completed, no two
\* documents of the collection have the same name; in particular no two of
\* the documents the creates have added, whether the creates were called
\* one after the other, while another was in flight, or for the documents
\* of one bundle.
C16_NamesUnique ==
    CreatesInFlight(requests) = 0 =>
        \A i, j \in 1..Len(flows) :
            (i # j /\ flows[i].id \in Created /\ flows[j].id \in Created)
                => flows[i].name # flows[j].name

(* ----------------------------------------------------------------------- *)
(* Forced replace (checked under ReplaceSpec)                              *)
(* ----------------------------------------------------------------------- *)

\* C17 (as claimed): when a forced replace issues the gateway create of the
\* replacement, the delete of the existing component of the source's name
\* has completed and the component has left the collection: the step that
\* issues the create issues no delete and leaves no component of that name
\* in the collection.
C17_DeletedBeforeCreate ==
    [][(Runs("addFlow") /\ lastOp'.branch = "overriding") =>
        /\ \E j \in Issued : requests'[j].kind = "createOverride"
        /\ \A j \in Issued : requests'[j].kind # "delete"
        /\ \A k \in 1..Len(flows') :
              ~(flows'[k].is_component
                /\ flows'[k].name = lastOp'.args.flow.name)]_vars

(* ----------------------------------------------------------------------- *)
(* Registry claims (checked under Spec): normal create                     *)
(* ----------------------------------------------------------------------- *)

\* C18: a normal create changes the registry only when the gateway create
\* succeeds.  The call leaves collection, current identifier and loading
\* flag as they are.  On success the collection is the created document,
\* with the identifier the gateway returned, followed by the documents it
\* held, and that identifier is returned.  On failure addFlow rethrows and
\* collection, current identifier and loading flag are unchanged.
C18_CreateStoresOnSuccessOnly ==
    [][Runs("addFlow") =>
        /\ lastOp'.branch \in {"creating", "rejected"} =>
              /\ flows' = flows
              /\ currentFlowId' = currentFlowId
              /\ currentFlow' = currentFlow
              /\ isLoading' = isLoading
        /\ lastOp'.branch = "resolved" =>
              \E i \in 1..Len(requests) :
                  /\ Pending(i, "create")
                  /\ requests' = RemoveAt(requests, i)
                  /\ lastOp'.args = CreatedIds[nextId + 1]
                  /\ flows' = <<[requests[i].arg EXCEPT !.id = lastOp'.args]>>
                                  \o flows
                  /\ currentFlowId' = currentFlowId]_vars

\* C18 witness: a create failed while the registry held documents and was
\* loading; nothing of the registry changed.
C18_Witness ==
    /\ Ran("addFlow")
    /\ lastOp.branch = "rejected"
    /\ flows # <<>>
    /\ isLoading
    /\ RefreshInFlight

(* ----------------------------------------------------------------------- *)
(* History frame (checked under FrameSpec)                                 *)
(* ----------------------------------------------------------------------- *)

\* The stacks of every document but the current one are kept, and no
\* document but the current one gets a stack.
OtherStacksKept(stacks, stacksAfter) ==
    /\ DOMAIN stacks \subseteq DOMAIN stacksAfter
    /\ DOMAIN stacksAfter \subseteq DOMAIN stacks \cup {currentFlowId}
    /\ \A k \in DOMAIN stacks \ {currentFlowId} : stacksAfter[k] = stacks[k]

\* C19: takeSnapshot, undo and redo change nothing but the past and future
\* stacks of the current document and, for undo and redo, the live nodes
\* and edges.  The stacks of the other documents, the collection, the
\* current identifier and document, and the loading flag are unchanged; no
\* gateway call is issued or answered and no timer is set.
C19_HistoryFrame ==
    [][(Runs("takeSnapshot") \/ Runs("undo") \/ Runs("redo")) =>
        /\ OtherStacksKept(past, past')
        /\ OtherStacksKept(future, future')
        /\ Runs("takeSnapshot") => nodes' = nodes /\ edges' = edges
        /\ flows' = flows
        /\ currentFlowId' = currentFlowId
        /\ currentFlow' = currentFlow
        /\ isLoading' = isLoading
        /\ requests' = requests
        /\ nextId' = nextId
        /\ timers' = timers
        /\ saveTimeoutId' = saveTimeoutId]_vars

\* C19 witness: an undo of document f1 has run while the stacks of the
\* other document held entries, the registry was loaded and a refresh was
\* in flight.
C19_Witness ==
    /\ Ran("undo")
    /\ lastOp.branch = "done"
    /\ currentFlowId = "f1"
    /\ StackLength(past, "") >= 1
    /\ StackLength(future, "") >= 1
    /\ StackLength(future, "f1") >= 1
    /\ flows # <<>>
    /\ RefreshInFlight

(* ----------------------------------------------------------------------- *)
(* Registry claims (checked under Spec): removeFlow settles                *)
(* ----------------------------------------------------------------------- *)

\* C20 (as claimed): the promise of every removeFlow and deleteComponent
\* call settles once the gateway has answered.  A promise that nothing
\* refers to any more cannot settle, so: the call either resolves its
\* promise at once or issues the gateway delete whose answer will settle
\* it, and the gateway's answer, success or failure, settles it.
C20_RemovalSettles ==
    [][(Runs("removeFlow") \/ Runs("deleteComponent")) =>
        \/ lastOp'.branch = "resolved"
        \/ /\ lastOp'.branch = "deleting"
           /\ \E j \in Issued : requests'[j].kind = "delete"]_vars

====
